---- MODULE Spec2Model ----
(***************************************************************************)
(* Model of zd-ticket-watchdog (src/watchdog.py): the alert state store    *)
(* (load_state, save_state, should_alert, mark_alerted), the pending-since *)
(* resolver (find_pending_since), the tag filter (tags_match) and the      *)
(* orchestrator (main).                                                    *)
(*                                                                         *)
(* Time.  now_utc() has sub-second resolution, while dt_to_iso / iso_to_dt *)
(* keep whole seconds only.  The model counts time in ticks, TicksPerSec   *)
(* ticks to a second: the clock is a tick count, a stored ISO timestamp is *)
(* a whole number of seconds.  Thresholds and cooldowns (float hours in    *)
(* the code, multiplied or divided by 3600) are tick counts.               *)
(***************************************************************************)
EXTENDS Integers, Sequences, FiniteSets, TLC

VARIABLES
    \* ---- the world and the configuration
    clock,          \* now_utc(), in ticks
    file,           \* STATE_FILE on disk: [status, alerts]
    cooldown,       \* ALERT_COOLDOWN_HOURS, in ticks
    threshold,      \* HOURS_PENDING_THRESHOLD, in ticks
    include,        \* INCLUDE_TAGS
    exclude,        \* EXCLUDE_TAGS
    watch,          \* the key whose alerts the model follows over the runs
    \* ---- one invocation of main()
    pc,             \* position of main()
    mem,            \* state["alerts"] held in memory
    tickets,        \* result of zd.search_tickets
    idx,            \* position of the for loop in tickets
    pending_since,  \* find_pending_since(audits) of the current ticket
    stale_count,
    alerted_count,
    tally,          \* history: sends accepted, marks made and stale tickets met
    \* ---- history of the model (not program state)
    file0,          \* the file as it was when the current run started
    sentOK,         \* keys whose alert was accepted by Slack in this run
    lastSent,       \* the instant of the last accepted alert for watch
    inWindow,       \* the run started less than the cooldown after it
    cur,            \* what has been decided for the current ticket
    last,           \* what was decided for the ticket before it
    decided,        \* tickets of this run that have got their outcome
    \* ---- direct calls of the store functions
    call,           \* the last direct call and what it returned
    markedAt,       \* the last direct mark_alerted: its key and instant
    \* ---- direct calls of the resolver
    audits_in,      \* the argument of find_pending_since
    result,         \* whether it has returned, and what
    \* ---- direct calls of the tag filter
    tags_in,        \* the tags of the ticket given to tags_match
    match,          \* whether it has returned, and what
    \* ---- a single invocation
    startedAt,      \* the instant at which the invocation starts
    \* ---- a second invocation of main() on the same state file
    other           \* its position, its in-memory store, when it alerted

vars == <<clock, file, cooldown, threshold, include, exclude, watch, pc, mem,
          tickets, idx, pending_since, stale_count, alerted_count, tally, file0,
          sentOK, lastSent, inWindow, cur, last, decided, call, markedAt,
          audits_in, result, tags_in, match, startedAt, other>>

cfgVars == <<cooldown, threshold, include, exclude, watch, startedAt>>
runVars == <<pc, mem, tickets, idx, pending_since, stale_count,
             alerted_count, tally, file0, sentOK, lastSent, inWindow, cur, last,
             decided>>
storeVars == <<call, markedAt>>
resolverVars == <<audits_in, result>>
filterVars == <<tags_in, match>>

\* ---------------------------------------------------------------- bounds
TicksPerSec == 2        \* resolution of the clock below one second
MaxClock == 6           \* last instant of the clock, in ticks
MaxTickets == 2         \* length of a search result
MaxStoreClock == 5      \* last instant of the clock in direct store calls
MaxCooldown == 3        \* largest cooldown in direct store calls, in ticks
MaxAudits == 2          \* length of an audit list given to the resolver
MaxEvents == 1          \* change records in one audit
MaxStamp == 2           \* largest created_at of an audit, in seconds

None == 0 - 1           \* Python's None where a time is expected
BadStamp == 0 - 2       \* a stored timestamp that strptime cannot parse

TicketIds == {1, 2}

\* ------------------------------------------------------- time utilities
\* dt_to_iso: strftime("%Y-%m-%dT%H:%M:%SZ") drops the fraction of a second.
dt_to_iso_ceil(t) == (t + TicksPerSec - 1) \div TicksPerSec

dt_to_iso(t) == t \div TicksPerSec

\* iso_to_dt: the instant a whole-second timestamp denotes.
iso_to_dt(s) == s * TicksPerSec

\* key = f"{ticket_id}:{condition_key}".  A ticket id is an int, its decimal
\* form holds no colon, so the string determines both parts: a pair.
Key(ticket_id, condition_key) == <<ticket_id, condition_key>>

\* ------------------------------------------------------ alert state store
\* The dict state["alerts"] is a set of entries [k, ts]; alerts.get(key).
Get(alerts, key) ==
    IF \E e \in alerts : e.k = key
    THEN (CHOOSE e \in alerts : e.k = key).ts
    ELSE None

Keys(alerts) == {e.k : e \in alerts}

\* load_state of a file that does not exist: {"alerts": {}}.
EmptyStore == {}

ShouldAlert_strict(alerts, ticket_id, condition_key, cooldown_hours, now) ==
    LET last_iso == Get(alerts, Key(ticket_id, condition_key))
    IN  IF last_iso = None THEN TRUE
        ELSE now - iso_to_dt(last_iso) > cooldown_hours

\* should_alert, with now_utc() = now.
ShouldAlert(alerts, ticket_id, condition_key, cooldown_hours, now) ==
    LET last_iso == Get(alerts, Key(ticket_id, condition_key))
    IN  IF last_iso = None THEN TRUE
        ELSE now - iso_to_dt(last_iso) >= cooldown_hours

MarkAlerted_append(alerts, ticket_id, condition_key, now) ==
    alerts \cup {[k |-> Key(ticket_id, condition_key), ts |-> dt_to_iso(now)]}

MarkAlerted_ticketwide(alerts, ticket_id, condition_key, now) ==
    {e \in alerts : e.k[1] # ticket_id}
        \cup {[k |-> Key(ticket_id, condition_key), ts |-> dt_to_iso(now)]}

MarkAlerted_noop(alerts, ticket_id, condition_key, now) == alerts

\* mark_alerted, with now_utc() = now: alerts[key] = dt_to_iso(now).
MarkAlerted(alerts, ticket_id, condition_key, now) ==
    {e \in alerts : e.k # Key(ticket_id, condition_key)}
        \cup {[k |-> Key(ticket_id, condition_key), ts |-> dt_to_iso(now)]}

\* ------------------------------------------------------------ core logic
IsPendingChange(ev) == ev.field_name = "status" /\ ev.value = "pending"

\* The inner loop of find_pending_since: one append of audit_dt per matching
\* change record of the audit.
RECURSIVE EventTimes(_, _)
EventTimes(events, audit_dt) ==
    IF events = <<>> THEN <<>>
    ELSE (IF IsPendingChange(Head(events)) THEN <<audit_dt>> ELSE <<>>)
             \o EventTimes(Tail(events), audit_dt)

\* The outer loop: an audit without created_at is skipped.
RECURSIVE PendingTimes(_)
PendingTimes(audits) ==
    IF audits = <<>> THEN <<>>
    ELSE LET audit == Head(audits)
         IN  (IF audit.created_at = None THEN <<>>
              ELSE EventTimes(audit.events, audit.created_at))
                 \o PendingTimes(Tail(audits))

\* list.sort(): insertion of each element into an ascending sequence.
RECURSIVE Insert(_, _)
Insert(x, sorted) ==
    IF sorted = <<>> THEN <<x>>
    ELSE IF x <= Head(sorted) THEN <<x>> \o sorted
    ELSE <<Head(sorted)>> \o Insert(x, Tail(sorted))

RECURSIVE Sort(_)
Sort(s) == IF s = <<>> THEN <<>> ELSE Insert(Head(s), Sort(Tail(s)))

FindPendingSince_first(audits) ==
    LET pending_times == PendingTimes(audits)
    IN  IF pending_times = <<>> THEN None ELSE pending_times[1]

\* find_pending_since: a time in whole seconds, or None.
FindPendingSince(audits) ==
    LET pending_times == PendingTimes(audits)
    IN  IF pending_times = <<>> THEN None
        ELSE Sort(pending_times)[Len(pending_times)]

TagsMatch_includeWins(tags, include_tags, exclude_tags) ==
    IF include_tags # {} /\ (\E t \in include_tags : t \in tags) THEN TRUE
    ELSE IF include_tags # {} THEN FALSE
    ELSE IF exclude_tags # {} /\ (\E t \in exclude_tags : t \in tags) THEN FALSE
    ELSE TRUE

\* tags_match, with the process-wide INCLUDE_TAGS and EXCLUDE_TAGS.
TagsMatch(tags, include_tags, exclude_tags) ==
    IF include_tags # {} /\ ~(\E t \in include_tags : t \in tags) THEN FALSE
    ELSE IF exclude_tags # {} /\ (\E t \in exclude_tags : t \in tags) THEN FALSE
    ELSE TRUE

\* ------------------------------------------------- inputs of the model
MainKeys == {Key(t, "pending48") : t \in TicketIds}

CooldownChoices == {1, 4}
ThresholdChoices == {2}
FilterChoices == {<<{}, {}>>, <<{"vip"}, {"spam"}>>}

\* What zd.search_tickets may return: tickets with an id and tags.
TicketPool == {[id |-> 1, tags |-> {"vip"}],
               [id |-> 2, tags |-> {"spam"}]}
RECURSIVE SeqsUpTo(_, _)
SeqsUpTo(S, n) ==
    IF n = 0 THEN {<<>>}
    ELSE LET shorter == SeqsUpTo(S, n - 1)
         IN  shorter \cup {Append(q, x) : q \in shorter, x \in S}
SearchResults == SeqsUpTo(TicketPool, MaxTickets)

\* What zd.list_audits may return in a run.
Change(f, v) == [field_name |-> f, value |-> v]
Audit(at, events) == [created_at |-> at, events |-> events]
RunAuditLists ==
    {<<>>,
     <<Audit(0, <<Change("status", "open")>>)>>,
     <<Audit(0, <<Change("status", "pending")>>)>>,
     <<Audit(1, <<Change("status", "pending")>>),
       Audit(0, <<Change("status", "pending")>>)>>}

\* json.dump(state, f, indent=2, sort_keys=True): the entries of the dict
\* one after the other, in the order of their keys.
RECURSIVE JsonDump(_)
JsonDump(alerts) ==
    IF alerts = {} THEN <<>>
    ELSE LET first == CHOOSE e \in alerts : \A f \in alerts : e.k[1] <= f.k[1]
         IN  <<first>> \o JsonDump(alerts \ {first})

JsonLoad_firstOnly(text) == {text[i] : i \in DOMAIN text \cap {1}}

\* json.load: the dict of the entries read; of two entries with the same
\* key the later one stays.
JsonLoad(text) ==
    {text[i] : i \in {j \in DOMAIN text :
                        \A l \in DOMAIN text : l > j => text[l].k # text[j].k}}

\* The state file: absent, not JSON, or the text save_state wrote.
NoFile == [status |-> "missing", text |-> <<>>]
Corrupt == [status |-> "corrupt", text |-> <<>>]
Stored(alerts) == [status |-> "ok", text |-> JsonDump(alerts)]

\* The entries written in a state file.
Alerts(f) == {f.text[i] : i \in DOMAIN f.text}

\* What the model remembers of one ticket of the loop: how far it got and,
\* for each comparison the code made, on which side of the limit the
\* compared duration was at that instant; err names the call that raised.
NoCur == [known |-> FALSE, age |-> "none", counted |-> FALSE,
          asked |-> FALSE, rec |-> "none",
          allowed |-> FALSE, sent |-> FALSE, gap |-> "none",
          marked |-> FALSE, out |-> "none", err |-> "none"]

\* A duration against a limit: "below", "equal" or "above".
Side(duration, limit) ==
    IF duration < limit THEN "below"
    ELSE IF duration = limit THEN "equal" ELSE "above"
\* A direct call: the function, its key, the instant, whether the store had
\* a record for the key when it was called, and what it returned.
NoCall == [op |-> "none", key |-> Key(0, ""), at |-> 0, had |-> FALSE,
           ret |-> FALSE]
\* The direct mark_alerted calls so far: the keys marked, and the key and
\* instant of the last one.
NoMark == [keys |-> {}, key |-> Key(0, ""), at |-> None]

\* No second invocation.
Off == [pc |-> "off", mem |-> {}, sentAt |-> None]

\* Nothing sent, marked or found stale yet in this run.
NoTally == [sends |-> 0, marks |-> 0, stale |-> 0]

\* tags_match has not been called.
NoMatch == [done |-> FALSE, value |-> FALSE]

\* ------------------------------------------------------------------ Init
InitLocals ==
    /\ clock = 0
    /\ pc = "idle"
    /\ mem = EmptyStore
    /\ tickets = <<>>
    /\ idx = 1
    /\ pending_since = None
    /\ stale_count = 0
    /\ alerted_count = 0
    /\ tally = NoTally
    /\ sentOK = {}
    /\ lastSent = None
    /\ inWindow = FALSE
    /\ cur = NoCur
    /\ last = NoCur
    /\ decided = 0
    /\ call = NoCall
    /\ markedAt = NoMark
    /\ match = NoMatch

\* No state file yet.
InitCommon ==
    /\ InitLocals
    /\ file = NoFile
    /\ file0 = NoFile

NoResult == [done |-> FALSE, value |-> None]

\* The configuration of main(), read from the environment at start.
InitConfig ==
    /\ audits_in = <<>>
    /\ result = NoResult
    /\ tags_in = {}
    /\ cooldown \in CooldownChoices
    /\ threshold \in ThresholdChoices
    /\ \E f \in FilterChoices : include = f[1] /\ exclude = f[2]
    /\ watch \in MainKeys

Init ==
    /\ InitCommon
    /\ InitConfig
    /\ startedAt = 0
    /\ other = Off

\* The state file as something other than a completed save_state left it:
\* absent, not JSON, or JSON in which the timestamp of one key is not of
\* the form strptime expects.
DamagedFiles ==
    {NoFile, Corrupt}
        \cup {Stored({[k |-> key, ts |-> BadStamp]}) : key \in MainKeys}

InitDamaged ==
    /\ InitLocals
    /\ file \in DamagedFiles
    /\ file0 = file
    /\ InitConfig
    /\ startedAt = 0
    /\ other = Off

\* ------------------------------------------------------------ the clock
\* Time passes while main() runs and between two invocations.
Tick ==
    /\ clock < MaxClock
    /\ pc \notin {"done", "aborted"}
    /\ clock' = clock + 1
    /\ UNCHANGED <<file, cfgVars, runVars, storeVars, resolverVars, filterVars, other>>

\* ------------------------------------------------------------- main()
\* What every step of main() leaves alone.
Frame == UNCHANGED <<clock, cfgVars, inWindow, storeVars, resolverVars, filterVars, other>>

\* The locals of main() before it has assigned them.
NoLocals ==
    /\ tickets' = <<>>
    /\ idx' = 1
    /\ pending_since' = None
    /\ stale_count' = 0
    /\ alerted_count' = 0
    /\ tally' = NoTally
    /\ cur' = NoCur
    /\ last' = NoCur
    /\ decided' = 0

BeginRun ==
    /\ file0' = file
    /\ sentOK' = {}
    /\ inWindow' = (lastSent # None /\ clock - lastSent < cooldown)
    /\ UNCHANGED <<tickets, idx, pending_since, stale_count, alerted_count,
                   tally, cur, last, decided>>
    /\ UNCHANGED <<clock, file, cfgVars, lastSent, storeVars, resolverVars, filterVars, other>>

\* state = load_state(STATE_FILE): a missing file is the empty store.
LoadState ==
    /\ pc = "idle"
    /\ file.status # "corrupt"
    /\ mem' = (IF file.status = "missing" THEN EmptyStore
               ELSE JsonLoad(file.text))
    /\ pc' = "search"
    /\ BeginRun

\* json.load raises on a file that is not JSON: main() ends there.
LoadStateFails ==
    /\ pc = "idle"
    /\ file.status = "corrupt"
    /\ mem' = EmptyStore
    /\ pc' = "aborted"
    /\ BeginRun

\* tickets = zd.search_tickets(query); the counters start at 0.
Search ==
    /\ pc = "search"
    /\ \E found \in SearchResults : tickets' = found
    /\ pc' = "loop"
    /\ UNCHANGED <<file, mem, idx, pending_since, stale_count, alerted_count, tally,
                   file0, sentOK, lastSent, cur, last, decided>>
    /\ Frame

\* zd.get_me or zd.search_tickets raises.
SearchFails ==
    /\ pc = "search"
    /\ pc' = "aborted"
    /\ UNCHANGED <<file, mem, tickets, idx, pending_since, stale_count,
                   alerted_count, tally, file0, sentOK, lastSent, cur, last, decided>>
    /\ Frame

InLoop == pc = "loop" /\ idx <= Len(tickets)

\* The loop goes on to the next ticket: the current one got its outcome.
NextTicket(entry) ==
    /\ last' = entry
    /\ decided' = decided + 1
    /\ cur' = NoCur
    /\ idx' = idx + 1
    /\ pending_since' = None
    /\ pc' = "loop"

\* if not tags_match(t): continue
FilterDrops ==
    /\ InLoop
    /\ ~TagsMatch(tickets[idx].tags, include, exclude)
    /\ NextTicket([NoCur EXCEPT !.out = "dropped-by-filter"])
    /\ UNCHANGED <<file, mem, tickets, stale_count, alerted_count, tally, file0,
                   sentOK, lastSent>>
    /\ Frame

AuditsFail_skipped ==
    /\ InLoop
    /\ TagsMatch(tickets[idx].tags, include, exclude)
    /\ NextTicket([NoCur EXCEPT !.err = "audits"])
    /\ UNCHANGED <<file, mem, tickets, stale_count, alerted_count, tally, file0,
                   sentOK, lastSent>>
    /\ Frame

\* zd.list_audits(ticket_id) raises.
AuditsFail ==
    /\ InLoop
    /\ TagsMatch(tickets[idx].tags, include, exclude)
    /\ cur' = [cur EXCEPT !.err = "audits"]
    /\ pc' = "aborted"
    /\ UNCHANGED <<file, mem, tickets, idx, pending_since, stale_count,
                   alerted_count, tally, file0, sentOK, lastSent, last, decided>>
    /\ Frame

Resolve_unknownAsZero ==
    /\ InLoop
    /\ TagsMatch(tickets[idx].tags, include, exclude)
    /\ \E audits \in RunAuditLists :
         LET ps == FindPendingSince(audits)
         IN  /\ pending_since' = (IF ps = None THEN 0 ELSE ps)
             /\ cur' = [NoCur EXCEPT !.known = (ps # None)]
             /\ pc' = "threshold"
             /\ UNCHANGED <<idx, last, decided>>
    /\ UNCHANGED <<file, mem, tickets, stale_count, alerted_count, tally, file0,
                   sentOK, lastSent>>
    /\ Frame

\* audits = zd.list_audits(ticket_id)
\* pending_since = find_pending_since(audits); if not pending_since: continue
Resolve ==
    /\ InLoop
    /\ TagsMatch(tickets[idx].tags, include, exclude)
    /\ \E audits \in RunAuditLists :
         LET ps == FindPendingSince(audits)
             seen == [NoCur EXCEPT !.known = (ps # None)]
         IN  IF ps = None
             THEN NextTicket([seen EXCEPT !.out = "duration-unknown-skip"])
             ELSE /\ pending_since' = ps
                  /\ cur' = seen
                  /\ pc' = "threshold"
                  /\ UNCHANGED <<idx, last, decided>>
    /\ UNCHANGED <<file, mem, tickets, stale_count, alerted_count, tally, file0,
                   sentOK, lastSent>>
    /\ Frame

IsStale_strict(now, since, threshold_hours) ==
    now - iso_to_dt(since) > threshold_hours

\* pending_hours = (now_utc() - pending_since) / 3600; the ticket goes on
\* unless pending_hours < HOURS_PENDING_THRESHOLD.
IsStale(now, since, threshold_hours) ==
    ~(now - iso_to_dt(since) < threshold_hours)

\* if pending_hours < HOURS_PENDING_THRESHOLD: continue; stale_count += 1
CheckThreshold ==
    /\ pc = "threshold"
    /\ LET seen == [cur EXCEPT
                       !.age = Side(clock - pending_since * TicksPerSec,
                                    threshold)]
       IN  IF IsStale(clock, pending_since, threshold)
           THEN /\ stale_count' = stale_count + 1
                /\ cur' = [seen EXCEPT !.counted = TRUE]
                /\ pc' = "cooldown"
                /\ UNCHANGED <<idx, pending_since, last, decided>>
           ELSE /\ NextTicket([seen EXCEPT !.out = "below-threshold-skip"])
                /\ UNCHANGED stale_count
    /\ tally' = [tally EXCEPT
                    !.stale = IF clock - pending_since * TicksPerSec < threshold
                              THEN @ ELSE @ + 1]
    /\ UNCHANGED <<file, mem, tickets, alerted_count, file0, sentOK, lastSent>>
    /\ Frame

CheckCooldown_ignored ==
    /\ pc = "cooldown"
    /\ LET ok == ShouldAlert(mem, tickets[idx].id, "pending48", cooldown, clock)
           key == Key(tickets[idx].id, "pending48")
       IN  cur' = [cur EXCEPT
                      !.asked = TRUE,
                      !.allowed = ok,
                      !.rec = IF key \in Keys(mem)
                              THEN Side(clock - Get(mem, key) * TicksPerSec,
                                        cooldown)
                              ELSE "none"]
    /\ pc' = "send"
    /\ UNCHANGED <<file, mem, tickets, idx, pending_since, stale_count,
                   alerted_count, tally, file0, sentOK, lastSent, last, decided>>
    /\ Frame

\* should_alert raises: iso_to_dt cannot parse the recorded timestamp.
CooldownRaises ==
    /\ pc = "cooldown"
    /\ Get(mem, Key(tickets[idx].id, "pending48")) = BadStamp
    /\ cur' = [cur EXCEPT !.asked = TRUE, !.err = "cooldown"]
    /\ pc' = "aborted"
    /\ UNCHANGED <<file, mem, tickets, idx, pending_since, stale_count,
                   alerted_count, tally, file0, sentOK, lastSent, last, decided>>
    /\ Frame

\* if not should_alert(state, ticket_id, "pending48", cooldown): continue
CheckCooldown ==
    /\ pc = "cooldown"
    /\ Get(mem, Key(tickets[idx].id, "pending48")) # BadStamp
    /\ LET ok == ShouldAlert(mem, tickets[idx].id, "pending48", cooldown, clock)
           key == Key(tickets[idx].id, "pending48")
           seen == [cur EXCEPT
                       !.asked = TRUE,
                       !.allowed = ok,
                       !.rec = IF key \in Keys(mem)
                               THEN Side(clock - Get(mem, key) * TicksPerSec,
                                         cooldown)
                               ELSE "none"]
       IN  IF ok
           THEN /\ cur' = seen
                /\ pc' = "send"
                /\ UNCHANGED <<idx, pending_since, last, decided>>
           ELSE NextTicket([seen EXCEPT !.out = "cooldown-suppressed"])
    /\ UNCHANGED <<file, mem, tickets, stale_count, alerted_count, tally, file0,
                   sentOK, lastSent>>
    /\ Frame

\* slack.post_message returns: Slack answered ok, the alert is out.
PostMessage ==
    /\ pc = "send"
    /\ LET key == Key(tickets[idx].id, "pending48")
       IN  /\ sentOK' = sentOK \cup {key}
           /\ lastSent' = (IF key = watch THEN clock ELSE lastSent)
           /\ cur' = [cur EXCEPT
                          !.sent = TRUE,
                          !.gap = IF key # watch THEN "unwatched"
                                  ELSE IF lastSent = None THEN "first"
                                  ELSE Side(clock - lastSent, cooldown)]
    /\ tally' = [tally EXCEPT !.sends = @ + 1]
    /\ pc' = "mark"
    /\ UNCHANGED <<file, mem, tickets, idx, pending_since, stale_count,
                   alerted_count, file0, last, decided>>
    /\ Frame

PostMessageFails_swallowed ==
    /\ pc = "send"
    /\ pc' = "mark"
    /\ UNCHANGED <<file, mem, tickets, idx, pending_since, stale_count,
                   alerted_count, tally, file0, sentOK, lastSent, cur, last, decided>>
    /\ Frame

\* slack.post_message raises: a transport error, or an answer without ok.
PostMessageFails ==
    /\ pc = "send"
    /\ cur' = [cur EXCEPT !.err = "post"]
    /\ pc' = "aborted"
    /\ UNCHANGED <<file, mem, tickets, idx, pending_since, stale_count,
                   alerted_count, tally, file0, sentOK, lastSent, last, decided>>
    /\ Frame

MarkAfterPost_uncounted ==
    /\ pc = "mark"
    /\ mem' = MarkAlerted(mem, tickets[idx].id, "pending48", clock)
    /\ tally' = [tally EXCEPT !.marks = @ + 1]
    /\ NextTicket([cur EXCEPT !.marked = TRUE, !.out = "alert-sent"])
    /\ UNCHANGED <<file, tickets, stale_count, alerted_count, file0, sentOK,
                   lastSent>>
    /\ Frame

\* mark_alerted(state, ticket_id, "pending48"); alerted_count += 1
MarkAfterPost ==
    /\ pc = "mark"
    /\ mem' = MarkAlerted(mem, tickets[idx].id, "pending48", clock)
    /\ alerted_count' = alerted_count + 1
    /\ tally' = [tally EXCEPT !.marks = @ + 1]
    /\ NextTicket([cur EXCEPT !.marked = TRUE, !.out = "alert-sent"])
    /\ UNCHANGED <<file, tickets, stale_count, file0, sentOK, lastSent>>
    /\ Frame

LoopDone_any == pc = "loop"

\* The for loop over tickets has run out.
LoopDone == pc = "loop" /\ idx > Len(tickets)

\* save_state(STATE_FILE, state) after the loop: the file holds the store.
SaveState ==
    /\ LoopDone
    /\ file' = Stored(mem)
    /\ pc' = "done"
    /\ UNCHANGED <<mem, tickets, idx, pending_since, stale_count,
                   alerted_count, tally, file0, sentOK, lastSent, cur, last, decided>>
    /\ Frame

\* save_state raises.  open(path, "w") may fail and leave the file as it
\* was; once it has succeeded the file is truncated, and a failure of
\* json.dump leaves a file that is not JSON.
SaveStateFails ==
    /\ LoopDone
    /\ file' \in {file, Corrupt}
    /\ pc' = "aborted"
    /\ UNCHANGED <<mem, tickets, idx, pending_since, stale_count,
                   alerted_count, tally, file0, sentOK, lastSent, cur, last, decided>>
    /\ Frame

\* main() has returned or raised: the process ends, its memory is gone.
Exit ==
    /\ pc \in {"done", "aborted"}
    /\ pc' = "idle"
    /\ mem' = EmptyStore
    /\ NoLocals
    /\ file0' = file
    /\ sentOK' = {}
    /\ inWindow' = FALSE
    /\ UNCHANGED <<file, lastSent>>
    /\ UNCHANGED <<clock, cfgVars, storeVars, resolverVars, filterVars, other>>

Next ==
    \/ Tick
    \/ LoadState
    \/ LoadStateFails
    \/ Search
    \/ SearchFails
    \/ FilterDrops
    \/ AuditsFail
    \/ Resolve
    \/ CheckThreshold
    \/ CheckCooldown
    \/ PostMessage
    \/ PostMessageFails
    \/ MarkAfterPost
    \/ SaveState
    \/ SaveStateFails
    \/ Exit

Spec == Init /\ [][Next]_vars

\* Runs of main() that may start on a damaged state file.
NextDamaged ==
    \/ Next
    \/ CooldownRaises

SpecDamaged == InitDamaged /\ [][NextDamaged]_vars

\* One invocation of main(), started at any instant on no state file.
InitOneRun ==
    /\ InitCommon
    /\ InitConfig
    /\ startedAt \in 0..MaxClock
    /\ other = Off

\* Time passes until the invocation starts, and while it runs.
TickOneRun ==
    /\ pc = "idle" => clock < startedAt
    /\ Tick

\* The invocation starts: load_state at the start instant.
LoadStateOnce ==
    /\ clock = startedAt
    /\ LoadState

NextOneRun ==
    \/ TickOneRun
    \/ LoadStateOnce
    \/ Search
    \/ SearchFails
    \/ FilterDrops
    \/ AuditsFail
    \/ Resolve
    \/ CheckThreshold
    \/ CheckCooldown
    \/ PostMessage
    \/ PostMessageFails
    \/ MarkAfterPost
    \/ SaveState
    \/ SaveStateFails

SpecOneRun == InitOneRun /\ [][NextOneRun]_vars

\* ------------------------------------------- two invocations at once
\* A second process runs main() on the same state file while the first one
\* may be running.  It shares only the file and the clock with the first,
\* so its steps are its load_state, its loop and its save_state; its search
\* returns the watched ticket, pending for longer than the threshold.
InitOverlap ==
    /\ InitCommon
    /\ InitConfig
    /\ startedAt = 0
    /\ other = [Off EXCEPT !.pc = "idle"]

OtherFrame == UNCHANGED <<clock, cfgVars, runVars, storeVars, resolverVars,
                         filterVars>>

\* state = load_state(STATE_FILE) in the second process.
OtherLoad ==
    /\ other.pc = "idle"
    /\ file.status # "corrupt"
    /\ other' = [other EXCEPT
                    !.pc = "loaded",
                    !.mem = IF file.status = "missing" THEN EmptyStore
                            ELSE JsonLoad(file.text)]
    /\ UNCHANGED file
    /\ OtherFrame

\* The loop of the second process: should_alert, post_message, mark_alerted
\* for the watched ticket.
OtherLoop ==
    /\ other.pc = "loaded"
    /\ other' = IF ShouldAlert(other.mem, watch[1], watch[2], cooldown, clock)
                THEN [pc |-> "looped",
                      mem |-> MarkAlerted(other.mem, watch[1], watch[2], clock),
                      sentAt |-> clock]
                ELSE [other EXCEPT !.pc = "looped"]
    /\ UNCHANGED file
    /\ OtherFrame

\* save_state(STATE_FILE, state) in the second process.
OtherSave ==
    /\ other.pc = "looped"
    /\ file' = Stored(other.mem)
    /\ other' = [other EXCEPT !.pc = "saved"]
    /\ OtherFrame

NextOverlap ==
    \/ Tick
    \/ LoadState
    \/ Search
    \/ FilterDrops
    \/ Resolve
    \/ CheckThreshold
    \/ CheckCooldown
    \/ PostMessage
    \/ MarkAfterPost
    \/ SaveState
    \/ OtherLoad
    \/ OtherLoop
    \/ OtherSave

SpecOverlap == InitOverlap /\ [][NextOverlap]_vars

\* Runs of main() in which no call raises: every run completes.
NextCompleted ==
    \/ Tick
    \/ LoadState
    \/ Search
    \/ FilterDrops
    \/ Resolve
    \/ CheckThreshold
    \/ CheckCooldown
    \/ PostMessage
    \/ MarkAfterPost
    \/ SaveState
    \/ Exit

SpecCompleted == Init /\ [][NextCompleted]_vars

\* ------------------------------------- direct calls of the store functions
\* The (ticket_id, condition_key) arguments: one ticket under two condition
\* keys, and a second ticket under the first of them.
StoreArgs == {<<1, "pending48">>, <<1, "pending96">>, <<2, "pending48">>}
StoreCooldowns == (0 - 1) .. MaxCooldown

InitStore ==
    /\ InitCommon
    /\ audits_in = <<>>
    /\ result = NoResult
    /\ tags_in = {}
    /\ cooldown \in StoreCooldowns
    /\ threshold = 0
    /\ include = {}
    /\ exclude = {}
    /\ watch = Key(1, "pending48")
    /\ startedAt = 0
    /\ other = Off

StoreTick ==
    /\ clock < MaxStoreClock
    /\ clock' = clock + 1
    /\ UNCHANGED <<mem, call, markedAt>>
    /\ UNCHANGED <<file, cfgVars, pc, tickets, idx, pending_since, stale_count,
                   alerted_count, tally, file0, sentOK, lastSent, inWindow, cur,
                   last, decided, resolverVars, filterVars, other>>

\* should_alert(state, ticket_id, condition_key, cooldown) on the store in
\* memory; state.setdefault("alerts", {}) finds the dict and changes nothing.
CallShouldAlert ==
    /\ \E a \in StoreArgs :
         call' = [op |-> "should_alert",
                  key |-> Key(a[1], a[2]),
                  at |-> clock,
                  had |-> Key(a[1], a[2]) \in Keys(mem),
                  ret |-> ShouldAlert(mem, a[1], a[2], cooldown, clock)]
    /\ UNCHANGED <<clock, mem, markedAt>>
    /\ UNCHANGED <<file, cfgVars, pc, tickets, idx, pending_since, stale_count,
                   alerted_count, tally, file0, sentOK, lastSent, inWindow, cur,
                   last, decided, resolverVars, filterVars, other>>

\* mark_alerted(state, ticket_id, condition_key) on the store in memory.
CallMarkAlerted ==
    /\ \E a \in StoreArgs :
         /\ mem' = MarkAlerted(mem, a[1], a[2], clock)
         /\ markedAt' = [keys |-> markedAt.keys \cup {Key(a[1], a[2])},
                         key |-> Key(a[1], a[2]),
                         at |-> clock]
         /\ call' = [op |-> "mark_alerted",
                     key |-> Key(a[1], a[2]),
                     at |-> clock,
                     had |-> Key(a[1], a[2]) \in Keys(mem),
                     ret |-> FALSE]
    /\ UNCHANGED clock
    /\ UNCHANGED <<file, cfgVars, pc, tickets, idx, pending_since, stale_count,
                   alerted_count, tally, file0, sentOK, lastSent, inWindow, cur,
                   last, decided, resolverVars, filterVars, other>>

NextStore ==
    \/ StoreTick
    \/ CallShouldAlert
    \/ CallMarkAlerted

SpecStore == InitStore /\ [][NextStore]_vars

\* ------------------------------------------- direct calls of the resolver
\* Change records: a status change to pending, a status change to another
\* value, another field changed to "pending".
Changes == {Change("status", "pending"), Change("status", "open"),
            Change("priority", "pending")}

\* Audits as list_audits hands them over: created_at may be missing.
Audits == {Audit(at, events) : at \in {None} \cup (0 .. MaxStamp),
                               events \in SeqsUpTo(Changes, MaxEvents)}

InitResolver ==
    /\ InitCommon
    /\ cooldown = 0
    /\ threshold = 0
    /\ include = {}
    /\ exclude = {}
    /\ watch = Key(1, "pending48")
    /\ startedAt = 0
    /\ other = Off
    /\ audits_in \in SeqsUpTo(Audits, MaxAudits)
    /\ result = NoResult
    /\ tags_in = {}

\* find_pending_since(audits)
CallFindPendingSince ==
    /\ ~result.done
    /\ result' = [done |-> TRUE, value |-> FindPendingSince(audits_in)]
    /\ UNCHANGED <<clock, file, cfgVars, runVars, storeVars, audits_in,
                   filterVars, other>>

NextResolver == CallFindPendingSince

SpecResolver == InitResolver /\ [][NextResolver]_vars

\* ----------------------------------------- direct calls of the tag filter
\* The tags a ticket may carry and the configuration may name.
TagNames == {"vip", "spam", "bug"}

\* INCLUDE_TAGS and EXCLUDE_TAGS are lists; tags_match only asks whether one
\* of their elements is among the ticket's tags, so a set stands for each.
InitFilter ==
    /\ InitCommon
    /\ audits_in = <<>>
    /\ result = NoResult
    /\ cooldown = 0
    /\ threshold = 0
    /\ watch = Key(1, "pending48")
    /\ startedAt = 0
    /\ other = Off
    /\ include \in SUBSET TagNames
    /\ exclude \in SUBSET TagNames
    /\ tags_in \in SUBSET TagNames

\* tags_match(ticket)
CallTagsMatch ==
    /\ ~match.done
    /\ match' = [done |-> TRUE, value |-> TagsMatch(tags_in, include, exclude)]
    /\ UNCHANGED <<clock, file, cfgVars, runVars, storeVars, resolverVars,
                   tags_in, other>>

NextFilter == CallTagsMatch

SpecFilter == InitFilter /\ [][NextFilter]_vars

\* ============================================================ properties
\* ---- properties of main(), under Spec
InRun == pc \notin {"idle"}

\* The tag filter as the design states it, on the ticket decided last.
Passes(tags) ==
    /\ (include = {} \/ tags \cap include # {})
    /\ (exclude = {} \/ tags \cap exclude = {})

\* C1: a run that starts less than the cooldown after an accepted alert for
\* a key sends no alert for that key while the cooldown has not elapsed,
\* whether the runs before it completed or aborted.
C1_NoRealertWithinCooldown ==
    inWindow => (cur.gap # "below" /\ last.gap # "below")

\* C2: every entry of the persisted store that a run wrote, and every entry
\* the run put in its in-memory store, is for a key whose alert Slack
\* accepted in that run; nothing is recorded for a key whose send failed or
\* was not attempted.
C2_StoredOnlyAfterSend ==
    /\ \A e \in Alerts(file) \ Alerts(file0) : e.k \in sentOK
    /\ InRun => \A e \in mem \ Alerts(file0) : e.k \in sentOK

C2_Witness ==
    /\ pc = "done"
    /\ Alerts(file) \ Alerts(file0) # {}

\* C3: a run that aborts leaves the persisted store as it was when the run
\* started; a run that completes has saved its store.
C3_AllOrNothing ==
    /\ pc = "aborted" => file = file0
    /\ pc = "done" => file = Stored(mem)

\* C7: a store holds one timestamp per key; while a run goes on, and from
\* one completed run's save to the next, no key leaves the store and no
\* key's timestamp decreases.
OneStampPerKey(alerts) ==
    \A e1, e2 \in alerts : e1.k = e2.k => e1 = e2

Grows(old, new) ==
    \A e \in old : \E f \in new : f.k = e.k /\ f.ts >= e.ts

C7_StoreMonotone ==
    /\ [](OneStampPerKey(mem) /\ OneStampPerKey(Alerts(file)))
    /\ [][/\ pc' # "idle" => Grows(mem, mem')
          /\ file'.status = "ok" => Grows(Alerts(file), Alerts(file'))]_vars

C7_Witness ==
    /\ pc = "done"
    /\ \E e \in Alerts(file0) : \E f \in Alerts(file) :
          f.k = e.k /\ f.ts > e.ts

\* C8: each ticket of the loop gets exactly one outcome, decided in the
\* order filter, pending-since, threshold, cooldown; the alert is sent iff
\* all four let it through, and the store is marked iff the alert was sent.
OutcomeOf(passes, r) ==
    IF ~passes THEN "dropped-by-filter"
    ELSE IF ~r.known THEN "duration-unknown-skip"
    ELSE IF r.age = "below" THEN "below-threshold-skip"
    ELSE IF ~r.allowed THEN "cooldown-suppressed"
    ELSE "alert-sent"

C8_OneOutcomePerTicket ==
    /\ InRun => decided = idx - 1
    /\ pc = "done" => decided = Len(tickets)
    /\ (InRun /\ decided > 0) =>
         LET passes == Passes(tickets[decided].tags)
         IN  /\ last.out = OutcomeOf(passes, last)
             /\ ~passes => ~last.known
             /\ ~last.known => last.age = "none"
             /\ last.age \in {"none", "below"} => ~last.asked
             /\ ~last.asked => ~last.allowed
             /\ last.sent <=> (passes /\ last.known /\ last.allowed
                                 /\ last.age \in {"equal", "above"})
             /\ last.marked <=> last.sent
             /\ last.sent =>
                  Key(tickets[decided].id, "pending48") \in Keys(mem)

C8_Witness ==
    /\ pc = "done"
    /\ Len(tickets) = 2
    /\ last.out = "cooldown-suppressed"
    /\ alerted_count = 1

\* C9: a ticket is counted stale, and goes on to the cooldown check, iff
\* now - pending_since is at or above the threshold; below it the ticket is
\* neither counted nor alerted.
StaleRule(r) ==
    /\ r.counted <=> r.age \in {"equal", "above"}
    /\ r.age = "below" => ~r.asked /\ ~r.sent /\ ~r.marked

C9_StaleIffAtOrAboveThreshold ==
    /\ StaleRule(cur)
    /\ StaleRule(last)
    /\ pc \in {"cooldown", "send", "mark"} => cur.counted

C9_Witness ==
    /\ last.age = "equal"
    /\ last.out = "alert-sent"

\* ---- properties of the store functions, under SpecStore
Asked == call.op = "should_alert"

\* C4: should_alert returns true iff the store has no record for the key or
\* the time since the recorded timestamp is at least the cooldown (a time
\* equal to the cooldown included).
C4_ShouldAlertIff ==
    Asked =>
      (call.ret <=>
         \/ \A e \in mem : e.k # call.key
         \/ \E e \in mem :
               e.k = call.key /\ call.at - e.ts * TicksPerSec >= cooldown)

C4_Witness ==
    /\ Asked
    /\ call.ret
    /\ cooldown > 0
    /\ \E e \in mem :
          e.k = call.key /\ call.at - e.ts * TicksPerSec = cooldown

\* C5 as stated: should_alert is true before any mark_alerted of the key,
\* false when called at the instant of the key's mark_alerted for every
\* cooldown > 0, and true again once the cooldown has elapsed since it.
BeforeAnyMark == (Asked /\ call.key \notin markedAt.keys) => call.ret
AfterCooldown ==
    (Asked /\ markedAt.key = call.key /\ call.at - markedAt.at >= cooldown)
        => call.ret
AtMarkInstant == Asked /\ markedAt.key = call.key /\ markedAt.at = call.at

C5_FalseRightAfterMark ==
    /\ BeforeAnyMark
    /\ (AtMarkInstant /\ cooldown > 0) => ~call.ret
    /\ AfterCooldown

\* C5 amended: the same, with false at the instant of the mark for every
\* cooldown of at least one second (the record keeps whole seconds).
C5_FalseRightAfterMarkOneSecond ==
    /\ BeforeAnyMark
    /\ (AtMarkInstant /\ cooldown >= TicksPerSec) => ~call.ret
    /\ AfterCooldown

C5_Witness ==
    /\ AtMarkInstant
    /\ cooldown >= TicksPerSec
    /\ markedAt.at % TicksPerSec # 0
    /\ ~call.ret

\* C6: mark_alerted sets the record of its key to the current time (in whole
\* seconds), whether or not the key had one, and leaves every other record
\* as it was, so that should_alert answers the same for every other key.
Others(alerts, key) == {e \in alerts : e.k # key}

C6_MarkFrame ==
    [][(call'.op = "mark_alerted" /\ <<call, mem>>' # <<call, mem>>) =>
         LET key == call'.key
         IN  /\ {e \in mem' : e.k = key}
                  = {[k |-> key, ts |-> clock \div TicksPerSec]}
             /\ Others(mem', key) = Others(mem, key)
             /\ \A a \in StoreArgs :
                  Key(a[1], a[2]) # key =>
                    ShouldAlert(mem', a[1], a[2], cooldown, clock)
                      = ShouldAlert(mem, a[1], a[2], cooldown, clock)]_vars

C6_Witness ==
    /\ call.op = "mark_alerted"
    /\ call.had
    /\ call.key = Key(1, "pending48")
    /\ Get(mem, Key(1, "pending48")) > Get(mem, Key(1, "pending96"))
    /\ Get(mem, Key(1, "pending96")) > Get(mem, Key(2, "pending48"))
    /\ Get(mem, Key(2, "pending48")) # None

\* ---- properties of the resolver, under SpecResolver
HasPendingChange(audit) ==
    \E j \in DOMAIN audit.events :
        /\ audit.events[j].field_name = "status"
        /\ audit.events[j].value = "pending"

\* The audits that went pending, and among them those with a created_at.
WentPending == {i \in DOMAIN audits_in : HasPendingChange(audits_in[i])}
Stamped == {i \in WentPending : audits_in[i].created_at # None}

IsLatestOf(value, indices) ==
    /\ \E i \in indices : audits_in[i].created_at = value
    /\ \A i \in indices : audits_in[i].created_at <= value

\* C10 as stated: the result is the latest created_at among the audits
\* holding a change of status to pending, whatever their order, and None
\* exactly when no audit holds one.
C10_LatestPendingOrNone ==
    result.done =>
        IF WentPending = {} THEN result.value = None
        ELSE result.value # None /\ IsLatestOf(result.value, WentPending)

\* C10 amended: the same over the audits that have a created_at.
C10_LatestStampedPendingOrNone ==
    result.done =>
        IF Stamped = {} THEN result.value = None
        ELSE result.value # None /\ IsLatestOf(result.value, Stamped)

C10_Witness ==
    /\ result.done
    /\ Len(audits_in) = 2
    /\ WentPending = {1, 2}
    /\ audits_in[1].created_at > audits_in[2].created_at
    /\ audits_in[2].created_at # None
    /\ result.value = audits_in[1].created_at

\* ---- properties of the tag filter, under SpecFilter
\* C11: tags_match passes a ticket iff (the include set is empty or the
\* ticket has a tag in it) and (the exclude set is empty or the ticket has no
\* tag in it); a tag in both sets drops the ticket, and with both sets empty
\* every ticket passes.
C11_TagsMatchIff ==
    match.done =>
        /\ match.value <=>
             /\ (include = {} \/ tags_in \cap include # {})
             /\ (exclude = {} \/ tags_in \cap exclude = {})
        /\ tags_in \cap include \cap exclude # {} => ~match.value
        /\ (include = {} /\ exclude = {}) => match.value

C11_Witness ==
    /\ match.done
    /\ ~match.value
    /\ tags_in = {"vip"}
    /\ include = {"vip"}
    /\ exclude = {"vip"}

\* ---- properties of a run with a ticket whose pending-since is unknown
\* C12: a ticket for which find_pending_since returns None is skipped and
\* the run goes on: no threshold comparison is made for it, no alert is sent,
\* it is not counted stale, the store and the counters are as before, and the
\* loop moves to the next ticket, so a completed run has decided every
\* ticket.
C12_UnknownDurationSkips ==
    /\ [](/\ pc \in {"threshold", "cooldown", "send", "mark"} =>
               cur.known /\ pending_since # None
          /\ \A r \in {cur, last} :
               ~r.known => /\ r.age = "none"
                           /\ ~r.counted /\ ~r.asked
                           /\ ~r.sent /\ ~r.marked
          /\ last.out = "duration-unknown-skip" => ~last.known
          /\ pc = "done" => decided = Len(tickets))
    /\ [][(InLoop /\ decided' = decided + 1
                  /\ last'.out = "duration-unknown-skip")
            => /\ pc' = "loop"
               /\ idx' = idx + 1
               /\ UNCHANGED <<mem, file, tickets, stale_count, alerted_count,
                              sentOK, lastSent>>]_vars

\* The first ticket was skipped as unknown and the second one got its alert.
C12_Witness ==
    /\ pc = "mark"
    /\ decided = 1
    /\ last.out = "duration-unknown-skip"
    /\ cur.sent

\* ---- properties of a run in which a call to a collaborator raises
\* C13: when list_audits or post_message raises, the run ends there: the
\* raising step changes neither the store, the file, the sink nor the
\* counters (so the key of the failed send is not marked), no ticket is
\* decided after it, and the only step that follows is the end of the
\* process, which leaves the file and the sink as they are.
C13_FailFast ==
    /\ [](/\ last.err = "none"
          /\ cur.err # "none" => pc = "aborted"
          /\ cur.err = "post" => cur.allowed /\ ~cur.sent /\ ~cur.marked)
    /\ [][/\ (cur.err = "none" /\ cur'.err # "none")
               => UNCHANGED <<mem, file, tickets, idx, decided, sentOK,
                              lastSent, stale_count, alerted_count>>
          /\ pc = "aborted"
               => pc' = "idle" /\ UNCHANGED <<file, lastSent>>]_vars

\* One alert went out, then the send for the next ticket raised.
C13_Witness ==
    /\ pc = "aborted"
    /\ cur.err = "post"
    /\ alerted_count = 1
    /\ idx = 2

\* ---- properties of consecutive completed runs, under SpecCompleted
\* With no record for the key the cooldown check lets the alert through.
FirstRunSends(r) == (r.asked /\ r.rec = "none") => r.allowed

\* With a record at least the cooldown old the alert goes out again.
AfterCooldownSends(r) == (r.asked /\ r.rec \in {"equal", "above"}) => r.allowed

\* With a record younger than the cooldown nothing is sent.
InsideRecordedWindowSilent(r) ==
    (r.asked /\ r.rec = "below") => (~r.allowed /\ ~r.sent /\ ~r.marked)

\* A suppressed ticket leaves the store as it is, an alerted one gets the
\* second of its marking instant as timestamp, and the saved file holds the
\* store of the run.
StampSteps ==
    /\ (pc = "cooldown" /\ pc' = "loop") => mem' = mem
    /\ (pc = "mark" /\ pc' = "loop") =>
          LET ts == Get(mem', Key(tickets[idx].id, "pending48"))
          IN  ts * TicksPerSec <= clock /\ clock < (ts + 1) * TicksPerSec
    /\ pc' = "done" => (file'.status = "ok" /\ Alerts(file') = mem)

\* C14 as stated: over completed runs on the same stale ticket, the run
\* without a record alerts and saves the key with its time, a run inside the
\* cooldown window of the last alert sends nothing for the key and leaves
\* its timestamp, and a run after the cooldown alerts again and updates it.
C14_ThreeRuns ==
    /\ [](\A r \in {cur, last} :
             /\ FirstRunSends(r)
             /\ inWindow => r.gap # "below"
             /\ AfterCooldownSends(r))
    /\ [][StampSteps]_vars

\* C14, with the cooldown window counted from the recorded timestamp, which
\* is the marking instant cut to whole seconds: a run whose cooldown check
\* finds a record younger than the cooldown sends nothing and leaves it.
C14_ThreeRunsRecordedWindow ==
    /\ [](\A r \in {cur, last} :
             /\ FirstRunSends(r)
             /\ InsideRecordedWindowSilent(r)
             /\ AfterCooldownSends(r))
    /\ [][StampSteps]_vars

\* A completed run that found a record at least the cooldown old, alerted
\* again and saved a later timestamp for the key.
C14_Witness ==
    /\ pc = "done"
    /\ last.out = "alert-sent"
    /\ last.rec \in {"equal", "above"}
    /\ \E e \in Alerts(file0) : \E f \in Alerts(file) :
          e.k = f.k /\ e.k[1] = tickets[Len(tickets)].id /\ f.ts > e.ts

\* ---- properties of a run on a damaged state file, under SpecDamaged
Damaged(f) ==
    \/ f.status = "corrupt"
    \/ \E e \in Alerts(f) : e.ts = BadStamp

\* C15: a run that starts on a state file that is not JSON or holds a
\* timestamp that cannot be parsed ends at load_state: it fetches and decides
\* no ticket, sends no alert and leaves the file as it was; a run that starts
\* without a state file starts from the empty store.
C15_DamagedStoreAbortsAtLoad ==
    /\ (InRun /\ Damaged(file0)) =>
          /\ pc = "aborted"
          /\ tickets = <<>>
          /\ decided = 0
          /\ sentOK = {}
          /\ file = file0
    /\ (pc = "search" /\ file0.status = "missing") => mem = EmptyStore

\* ---- properties of the store across save_state and load_state
\* C17: save_state writes exactly the entries of the in-memory store, and
\* the next load_state reads exactly the entries of the file, so a store
\* saved and loaded again is the same mapping; the timestamp mark_alerted
\* records, read back with iso_to_dt, is not later than the marking instant
\* and less than one second before it.
C17_RoundTrip ==
    [][/\ pc' = "done" =>
             /\ Alerts(file') = mem
             /\ Len(file'.text) = Cardinality(mem)
       /\ (pc = "idle" /\ pc' = "search" /\ file.status = "ok") =>
             mem' = Alerts(file)
       /\ (pc = "mark" /\ pc' = "loop") =>
             LET read == iso_to_dt(Get(mem', Key(tickets[idx].id,
                                                "pending48")))
             IN  read <= clock /\ clock - read < TicksPerSec]_vars

\* A run has loaded a store of two records that an earlier run saved; the
\* last alert for the watched key went out at a fraction of a second.
C17_Witness ==
    /\ pc = "search"
    /\ Cardinality(mem) = 2
    /\ mem = Alerts(file)
    /\ lastSent # None
    /\ lastSent % TicksPerSec # 0

\* ---- properties of the order of the steps of a run
\* The steps main() can take one after the other.
StepOrder ==
    {<<"idle", "search">>, <<"idle", "aborted">>,
     <<"search", "loop">>, <<"search", "aborted">>,
     <<"loop", "loop">>, <<"loop", "threshold">>, <<"loop", "aborted">>,
     <<"loop", "done">>,
     <<"threshold", "loop">>, <<"threshold", "cooldown">>,
     <<"cooldown", "loop">>, <<"cooldown", "send">>,
     <<"send", "mark">>, <<"send", "aborted">>,
     <<"mark", "loop">>,
     <<"done", "idle">>, <<"aborted", "idle">>}

\* C18: a run handles its tickets one at a time in the order of the search
\* result: for each ticket the audit fetch, the threshold and cooldown
\* checks, the send and mark_alerted come in that order and are over before
\* the next ticket starts; an alert is sent and a record written only for the
\* ticket at the loop index, which only moves forward by one, so alerts reach
\* Slack in the order of their tickets; the file is written only after the
\* last ticket.
C18_OneTicketAtATime ==
    /\ [](/\ pc \in {"loop", "threshold", "cooldown", "send", "mark", "done"}
               => decided = idx - 1
          /\ pc \in {"threshold", "cooldown", "send", "mark"}
               => idx <= Len(tickets)
          /\ pc = "done" => idx = Len(tickets) + 1
          /\ \A r \in {cur, last} :
               /\ r.counted => r.known
               /\ r.asked => r.counted
               /\ r.sent => (r.asked /\ r.allowed)
               /\ r.marked => r.sent)
    /\ [][/\ pc' # pc => <<pc, pc'>> \in StepOrder
          /\ (idx' # idx /\ pc' # "idle") => (idx' = idx + 1 /\ pc' = "loop")
          /\ (sentOK' # sentOK /\ pc' # "idle")
               => /\ pc = "send"
                  /\ sentOK' = sentOK \cup {Key(tickets[idx].id, "pending48")}
          /\ lastSent' # lastSent => pc = "send"
          /\ (mem' # mem /\ pc \notin {"idle", "done", "aborted"})
               => /\ pc = "mark"
                  /\ \A e \in mem' \ mem : e.k = Key(tickets[idx].id,
                                                     "pending48")
          /\ file' # file => (pc = "loop" /\ idx = Len(tickets) + 1)]_vars

\* A completed run that alerted for two different tickets, one after the
\* other.
C18_Witness ==
    /\ pc = "done"
    /\ Len(tickets) = 2
    /\ tickets[1].id # tickets[2].id
    /\ alerted_count = 2
    /\ Cardinality(sentOK) = 2

\* ---- properties of one invocation, under SpecOneRun
\* C19 as stated: a run that ended less than the cooldown after it started
\* sent at most one alert per ticket, also for a ticket the search result
\* lists twice.
C19_OneAlertPerTicket ==
    (pc \in {"done", "aborted"} /\ clock - startedAt < cooldown)
        => tally.sends = Cardinality(sentOK)

\* C19, for a cooldown at least one second longer than the run: up to any
\* instant that is at least one second less than the cooldown after the
\* start, no ticket has been alerted twice, and no second occurrence of an
\* alerted ticket has passed the cooldown check.
C19_OneAlertPerTicketWholeSecond ==
    (InRun /\ clock - startedAt + TicksPerSec <= cooldown) =>
        /\ tally.sends = Cardinality(sentOK)
        /\ pc = "send" => Key(tickets[idx].id, "pending48") \notin sentOK

\* The search result lists one ticket twice; the first occurrence was
\* alerted and the second one suppressed by the record of the first.
C19_Witness ==
    /\ pc = "done"
    /\ clock - startedAt + TicksPerSec <= cooldown
    /\ Len(tickets) = 2
    /\ tickets[1].id = tickets[2].id
    /\ tally.sends = 1
    /\ last.out = "cooldown-suppressed"
    /\ last.rec = "below"

\* ---- properties of the counters of a run
\* C20 as stated: at every point of a run alerted_count <= stale_count <=
\* number of tickets found; alerted_count is the number of alerts Slack has
\* accepted so far and the number of mark_alerted calls so far; stale_count
\* is the number of tickets met so far whose pending time was at or above
\* the threshold, those suppressed by the cooldown included.
C20_Counters ==
    InRun =>
        /\ alerted_count <= stale_count
        /\ stale_count <= Len(tickets)
        /\ alerted_count = tally.sends
        /\ alerted_count = tally.marks
        /\ stale_count = tally.stale
        /\ last.out = "cooldown-suppressed" => last.counted

\* C20, with the counter allowed to be one behind the sends while an alert
\* is between its accepted send and the mark_alerted and increment that
\* follow it.
C20_CountersBetweenTickets ==
    InRun =>
        /\ alerted_count <= stale_count
        /\ stale_count <= Len(tickets)
        /\ tally.sends = alerted_count + (IF pc = "mark" THEN 1 ELSE 0)
        /\ alerted_count = tally.marks
        /\ stale_count = tally.stale
        /\ last.out = "cooldown-suppressed" => last.counted

\* A completed run that met two stale tickets, alerted for one and
\* suppressed the other.
C20_Witness ==
    /\ pc = "done"
    /\ stale_count = 2
    /\ alerted_count = 1
    /\ tally.sends = 1
    /\ last.out = "cooldown-suppressed"

\* ---- properties of invocations that overlap, and of those that do not
\* Under SpecOverlap: both processes have loaded the store and neither has
\* saved, and each has sent an alert for the watched key less than the
\* cooldown from the other's.
RaceBothAlert ==
    /\ pc \in {"mark", "loop"}
    /\ other.pc = "looped"
    /\ file = NoFile
    /\ lastSent # None
    /\ other.sentAt # None
    /\ lastSent - other.sentAt < cooldown
    /\ other.sentAt - lastSent < cooldown

\* Under SpecOverlap: both processes have saved, and the file lacks the
\* record of an alert the first process sent and saved.
RaceLostRecord ==
    /\ pc = "done"
    /\ other.pc = "saved"
    /\ \E key \in sentOK : key \notin Keys(Alerts(file))

\* C16, the part on invocations that do not overlap: in runs that follow one
\* another, no alert for a key goes out in a run started inside the cooldown
\* window of an earlier alert for it, and no run leaves the file without a
\* record that was in it when the run started.
C16_SequentialRunsSafe ==
    /\ inWindow => (cur.gap # "below" /\ last.gap # "below")
    /\ pc \in {"done", "aborted"} => Grows(Alerts(file0), Alerts(file))

====
